---------------------------- MODULE Spec2Model ----------------------------
(***************************************************************************)
(* dockupdater (src/main.go): the concurrent update-checking engine.       *)
(*                                                                         *)
(* Strings of the program are sequences of one-character strings, so that  *)
(* concatenation, splitting and parsing are computed and not assumed.      *)
(***************************************************************************)
EXTENDS Integers, Sequences, FiniteSets, TLC

(***************************************************************************)
(* Strings                                                                 *)
(***************************************************************************)
DigitChars == <<"0", "1", "2", "3", "4", "5", "6", "7", "8", "9">>

Digits == {DigitChars[k] : k \in 1..10}

Letters == {"a", "b", "c", "d", "e", "f", "g", "h", "i", "j", "k", "l", "m",
            "n", "o", "p", "q", "r", "s", "t", "u", "v", "w", "x", "y", "z"}

\* Byte order of the characters the model uses ('-' < digits < letters).
OrdSeq == <<"+", "-", ".", "/", "0", "1", "2", "3", "4", "5", "6", "7", "8", "9", ":",
            "a", "b", "c", "d", "e", "f", "g", "h", "i", "j", "k", "l", "m",
            "n", "o", "p", "q", "r", "s", "t", "u", "v", "w", "x", "y", "z">>

Ord(c) == CHOOSE k \in 1..Len(OrdSeq) : OrdSeq[k] = c

DigitVal(c) == (CHOOSE k \in 1..10 : DigitChars[k] = c) - 1

\* strings.Index for a single character: the first position of c in s, 0 if none.
IndexOf(s, c) ==
    IF \E k \in 1..Len(s) : s[k] = c
    THEN CHOOSE k \in 1..Len(s) : s[k] = c /\ \A j \in 1..(k - 1) : s[j] # c
    ELSE 0

\* strings.Split(s, sep) for a one-character separator.
RECURSIVE Split(_, _)
Split(s, sep) ==
    LET k == IndexOf(s, sep)
    IN  IF k = 0 THEN <<s>>
        ELSE <<SubSeq(s, 1, k - 1)>> \o Split(SubSeq(s, k + 1, Len(s)), sep)

AllDigits(s) == s # <<>> /\ \A k \in 1..Len(s) : s[k] \in Digits

\* strconv.ParseInt / ParseUint on a string of decimal digits.
RECURSIVE ParseUint(_)
ParseUint(s) ==
    IF s = <<>> THEN 0
    ELSE 10 * ParseUint(SubSeq(s, 1, Len(s) - 1)) + DigitVal(s[Len(s)])

\* fmt's %d for a natural number.
RECURSIVE FormatUint(_)
FormatUint(n) ==
    IF n < 10 THEN <<DigitChars[n + 1]>>
    ELSE FormatUint(n \div 10) \o <<DigitChars[(n % 10) + 1]>>

\* Go's s > o on strings: byte-wise lexicographic order.
RECURSIVE StrGreater(_, _)
StrGreater(s, o) ==
    IF s = <<>> THEN FALSE
    ELSE IF o = <<>> THEN TRUE
    ELSE IF s[1] # o[1] THEN Ord(s[1]) > Ord(o[1])
    ELSE StrGreater(Tail(s), Tail(o))

(***************************************************************************)
(* github.com/Masterminds/semver as main.go uses it: NewVersion,           *)
(* GreaterThan, String.                                                    *)
(***************************************************************************)
NoVersion == [valid |-> FALSE]

\* One or more dot-separated identifiers over [0-9A-Za-z-].
ValidIdents(s) ==
    \A k \in 1..Len(Split(s, ".")) :
        LET id == Split(s, ".")[k]
        IN  id # <<>> /\ \A j \in 1..Len(id) : id[j] \in Digits \cup Letters \cup {"-"}

\* semver.NewVersion: v?MAJOR[.MINOR[.PATCH]][-PRERELEASE][+METADATA].
NewVersion(v) ==
    LET s1     == IF v # <<>> /\ v[1] = "v" THEN Tail(v) ELSE v
        plusAt == IndexOf(s1, "+")
        noMeta == IF plusAt = 0 THEN s1 ELSE SubSeq(s1, 1, plusAt - 1)
        meta   == IF plusAt = 0 THEN <<>> ELSE SubSeq(s1, plusAt + 1, Len(s1))
        dashAt == IndexOf(noMeta, "-")
        core   == IF dashAt = 0 THEN noMeta ELSE SubSeq(noMeta, 1, dashAt - 1)
        pre    == IF dashAt = 0 THEN <<>> ELSE SubSeq(noMeta, dashAt + 1, Len(noMeta))
        nums   == Split(core, ".")
    IN  IF /\ Len(nums) \in 1..3
           /\ \A k \in 1..Len(nums) : AllDigits(nums[k])
           /\ (dashAt # 0 => ValidIdents(pre))
           /\ (plusAt # 0 => ValidIdents(meta))
        THEN [valid    |-> TRUE,
              major    |-> ParseUint(nums[1]),
              minor    |-> IF Len(nums) >= 2 THEN ParseUint(nums[2]) ELSE 0,
              patch    |-> IF Len(nums) >= 3 THEN ParseUint(nums[3]) ELSE 0,
              pre      |-> pre,
              metadata |-> meta]
        ELSE NoVersion

\* Version.String: the normalised MAJOR.MINOR.PATCH[-PRE][+META].
VersionString(ver) ==
    FormatUint(ver.major) \o <<".">> \o FormatUint(ver.minor) \o <<".">>
        \o FormatUint(ver.patch)
        \o (IF ver.pre # <<>> THEN <<"-">> \o ver.pre ELSE <<>>)
        \o (IF ver.metadata # <<>> THEN <<"+">> \o ver.metadata ELSE <<>>)

\* semver's comparePrePart: one pre-release identifier against another.
ComparePrePart(s, o) ==
    IF s = o THEN 0
    ELSE IF s = <<>> THEN -1
    ELSE IF o = <<>> THEN 1
    ELSE IF ~AllDigits(o) /\ ~AllDigits(s) THEN (IF StrGreater(s, o) THEN 1 ELSE -1)
    ELSE IF ~AllDigits(o) THEN -1
    ELSE IF ~AllDigits(s) THEN 1
    ELSE IF ParseUint(s) > ParseUint(o) THEN 1 ELSE -1

\* semver's comparePrerelease, from identifier k on.
RECURSIVE ComparePreFrom(_, _, _)
ComparePreFrom(sparts, oparts, k) ==
    IF k > Len(sparts) /\ k > Len(oparts) THEN 0
    ELSE LET stemp == IF k <= Len(sparts) THEN sparts[k] ELSE <<>>
             otemp == IF k <= Len(oparts) THEN oparts[k] ELSE <<>>
             d     == ComparePrePart(stemp, otemp)
         IN  IF d # 0 THEN d ELSE ComparePreFrom(sparts, oparts, k + 1)

ComparePrerelease(v, o) ==
    IF v = <<>> /\ o = <<>> THEN 0
    ELSE IF v = <<>> THEN 1
    ELSE IF o = <<>> THEN -1
    ELSE ComparePreFrom(Split(v, "."), Split(o, "."), 1)

\* Version.Compare: -1, 0 or 1; build metadata is ignored.
Compare(v, o) ==
    IF v.major # o.major THEN (IF v.major > o.major THEN 1 ELSE -1)
    ELSE IF v.minor # o.minor THEN (IF v.minor > o.minor THEN 1 ELSE -1)
    ELSE IF v.patch # o.patch THEN (IF v.patch > o.patch THEN 1 ELSE -1)
    ELSE ComparePrerelease(v.pre, o.pre)

GreaterThan(v, o) == Compare(v, o) > 0


(***************************************************************************)
(* Configuration (loadConfig) and local images (getLocalImages,            *)
(* parseImageName).  Durations are in milliseconds.                        *)
(***************************************************************************)
DefaultRateLimit == 100

DefaultMaxRetries == 3

DefaultRetryDelay == 1000

StatusOK == 200

\* The keys of config.yaml (the mapstructure tags of Config).
ConfigKeys == {"gcr_access_token", "rate_limit", "max_retries", "retry_delay"}

\* viper.Unmarshal(&config): a key the file lacks leaves the field's zero
\* value.  A file is a record of the keys it holds and their values.
Unmarshal(file) ==
    [GCRAccessToken |-> IF "gcr_access_token" \in file.keys
                        THEN file.gcr_access_token ELSE <<>>,
     RateLimit      |-> IF "rate_limit" \in file.keys THEN file.rate_limit ELSE 0,
     MaxRetries     |-> IF "max_retries" \in file.keys THEN file.max_retries ELSE 0,
     RetryDelay     |-> IF "retry_delay" \in file.keys THEN file.retry_delay ELSE 0]

\* The file that holds exactly the non-zero fields of an unmarshalled Config.
FileOf(supplied) ==
    [keys |-> {k \in ConfigKeys :
                  \/ k = "gcr_access_token" /\ supplied.GCRAccessToken # <<>>
                  \/ k = "rate_limit" /\ supplied.RateLimit # 0
                  \/ k = "max_retries" /\ supplied.MaxRetries # 0
                  \/ k = "retry_delay" /\ supplied.RetryDelay # 0},
     gcr_access_token |-> supplied.GCRAccessToken,
     rate_limit       |-> supplied.RateLimit,
     max_retries      |-> supplied.MaxRetries,
     retry_delay      |-> supplied.RetryDelay]

\* The fields are left as unmarshalled: no default is applied.
loadConfigAsSupplied(supplied) == supplied

\* The defaults loadConfig applies to an unmarshalled Config.
loadConfig(supplied) ==
    [GCRAccessToken |-> supplied.GCRAccessToken,
     RateLimit      |-> IF supplied.RateLimit = 0 THEN DefaultRateLimit
                        ELSE supplied.RateLimit,
     MaxRetries     |-> IF supplied.MaxRetries = 0 THEN DefaultMaxRetries
                        ELSE supplied.MaxRetries,
     RetryDelay     |-> IF supplied.RetryDelay = 0 THEN DefaultRetryDelay
                        ELSE supplied.RetryDelay]

\* strings.Join(parts, "/").
RECURSIVE JoinSlash(_)
JoinSlash(parts) ==
    IF parts = <<>> THEN <<>>
    ELSE IF Len(parts) = 1 THEN parts[1]
    ELSE parts[1] \o <<"/">> \o JoinSlash(Tail(parts))

NoImage == [ok |-> FALSE, Registry |-> <<>>, Repo |-> <<>>, Tag |-> <<>>]

parseImageName(name) ==
    LET parts    == Split(name, "/")
        tagParts == Split(parts[Len(parts)], ":")
    IN  IF Len(parts) < 2 THEN NoImage
        ELSE IF Len(tagParts) # 2 THEN NoImage
        ELSE [ok       |-> TRUE,
              Registry |-> parts[1],
              Repo     |-> JoinSlash(SubSeq(parts, 2, Len(parts) - 1))
                               \o <<"/">> \o tagParts[1],
              Tag      |-> tagParts[2]]

\* The loop of getLocalImages stopping at the first line that does not parse.
RECURSIVE getLocalImagesUntilError(_)
getLocalImagesUntilError(lines) ==
    IF lines = <<>> THEN <<>>
    ELSE LET img == parseImageName(lines[1])
         IN  IF img.ok THEN <<img>> \o getLocalImagesUntilError(Tail(lines)) ELSE <<>>

\* The loop of getLocalImages: the lines that parse, in order.
RECURSIVE getLocalImages(_)
getLocalImages(lines) ==
    IF lines = <<>> THEN <<>>
    ELSE LET img == parseImageName(lines[1])
         IN  (IF img.ok THEN <<img>> ELSE <<>>) \o getLocalImages(Tail(lines))

\* What the loop of getLocalImages logs: "Error parsing image name" for each
\* line that does not parse, in order.
RECURSIVE parseErrorLog(_)
parseErrorLog(lines) ==
    IF lines = <<>> THEN <<>>
    ELSE (IF parseImageName(lines[1]).ok THEN <<>> ELSE <<lines[1]>>)
             \o parseErrorLog(Tail(lines))

\* strings.Split(strings.TrimSpace(output), "\n"): an output of no line at
\* all splits into one empty line.
OutputLines(lines) == IF lines = <<>> THEN << <<>> >> ELSE lines

(***************************************************************************)
(* checkForUpdates after the fetch (lines 112-130).                        *)
(***************************************************************************)
NoErr == <<>>

NoUpdate == [avail |-> FALSE, repo |-> <<>>, current |-> <<>>, latest |-> <<>>]

\* The loop over remoteTags: the first greatest version among the tags that
\* parse, NoVersion when none parses.
RECURSIVE LatestFrom(_, _, _)
LatestFrom(remoteTags, k, latestVer) ==
    IF k > Len(remoteTags) THEN latestVer
    ELSE LET v == NewVersion(remoteTags[k])
         IN  LatestFrom(remoteTags, k + 1,
                 IF v.valid /\ (~latestVer.valid \/ GreaterThan(v, latestVer))
                 THEN v ELSE latestVer)

\* A remote version equal to the current one counts as an update.
IsNotOlder(latestVer, currentVer) ==
    latestVer.valid /\ Compare(latestVer, currentVer) >= 0

\* latestVer != nil && latestVer.GreaterThan(currentVer)
IsOutdated(latestVer, currentVer) ==
    latestVer.valid /\ GreaterThan(latestVer, currentVer)

compareTags(image, remoteTags) ==
    LET currentVer == NewVersion(image.Tag)
        latestVer  == LatestFrom(remoteTags, 1, NoVersion)
    IN  IF ~currentVer.valid
        THEN [err |-> <<"error parsing current version">>, update |-> NoUpdate]
        ELSE IF IsOutdated(latestVer, currentVer)
        THEN [err    |-> NoErr,
              update |-> [avail   |-> TRUE,
                          repo    |-> image.Repo,
                          current |-> VersionString(currentVer),
                          latest  |-> VersionString(latestVer)]]
        ELSE [err |-> NoErr, update |-> NoUpdate]

(***************************************************************************)
(* getRemoteTags: cache key, request creation, responses.                  *)
(***************************************************************************)
cacheKey(image) == image.Registry \o <<"/">> \o image.Repo

\* net/url's getScheme on the request URL: the text before the first ':' is a
\* scheme when it starts with a letter and holds only letters, digits, + - .
HasScheme(raw) ==
    LET c == IndexOf(raw, ":")
    IN  /\ c > 1
        /\ raw[1] \in Letters
        /\ \A j \in 2..(c - 1) : raw[j] \in Letters \cup Digits \cup {"+", "-", "."}

\* http.NewRequestWithContext fails when url.Parse does: the URL starts with
\* the registry, and a first path segment holding ':' without a scheme before
\* it is rejected.
NewRequestFails(registry) ==
    LET c == IndexOf(registry, ":")
    IN  c # 0 /\ ~HasScheme(registry)

NilResp == [nil |-> TRUE, neterr |-> FALSE, status |-> 0, json |-> FALSE]

\* What client.Do and the body can be for one attempt: a network error or
\* timeout, a non-200 status, a 200 with a JSON body, a 200 with a body that
\* does not decode.
Outcomes ==
    {[nil |-> FALSE, neterr |-> TRUE,  status |-> 0,        json |-> FALSE],
     [nil |-> FALSE, neterr |-> FALSE, status |-> 500,      json |-> FALSE],
     [nil |-> FALSE, neterr |-> FALSE, status |-> StatusOK, json |-> TRUE],
     [nil |-> FALSE, neterr |-> FALSE, status |-> StatusOK, json |-> FALSE]}

\* A 200 counts only when its body decodes.
IsSuccessDecoded(r) == ~r.nil /\ ~r.neterr /\ r.status = StatusOK /\ r.json

\* err == nil && resp.StatusCode == http.StatusOK
IsSuccess(r) == ~r.nil /\ ~r.neterr /\ r.status = StatusOK

\* The tags the registries serve in the concurrent runs: 1.0.0, 1.0.1 and abc
\* for repository /a, 1.0.0 for the others.
DefaultServed(repo) ==
    IF repo = <<"/", "a">>
    THEN << <<"1", ".", "0", ".", "0">>, <<"1", ".", "0", ".", "1">>, <<"a", "b", "c">> >>
    ELSE << <<"1", ".", "0", ".", "0">> >>

\* The delay is not doubled.
NextDelaySame(d) == d

\* retryDelay *= 2
NextDelay(d) == d * 2

(***************************************************************************)
(* Bounds of the model and the inputs of a run.                            *)
(***************************************************************************)
\* At most this many local images, hence check goroutines.
MaxImages == 3

\* max_retries is supplied from -1..MaxSuppliedRetries (0 means absent).
MaxSuppliedRetries == 2

\* Requests in one limiter interval are counted up to this number.
MaxReqCount == 2

\* Lines of `docker image ls`: r/a:1.0.0, r/a:1.0.1 (the same repository),
\* r/b:x (a tag that is no version), 1:5/a:1.0.0 (a registry with a port).
AllLines ==
    << <<"r", "/", "a", ":", "1", ".", "0", ".", "0">>,
       <<"r", "/", "a", ":", "1", ".", "0", ".", "1">>,
       <<"r", "/", "b", ":", "x">>,
       <<"1", ":", "5", "/", "a", ":", "1", ".", "0", ".", "0">> >>

\* The lines of AllLines whose index is in S, in order.
RECURSIVE PickLines(_, _)
PickLines(S, k) ==
    IF k > Len(AllLines) THEN <<>>
    ELSE (IF k \in S THEN <<AllLines[k]>> ELSE <<>>) \o PickLines(S, k + 1)

\* docker lists a repository:tag once: the runs take distinct lines.
LineLists ==
    {PickLines(S, 1) : S \in {T \in SUBSET (1..Len(AllLines)) : Cardinality(T) <= MaxImages}}

\* What config.yaml supplies (0 and the empty string: absent), for the
\* concurrent runs: a rate_limit of 1s, the default retry_delay.
SuppliedConfigs ==
    [GCRAccessToken : {<<>>, <<"t">>},
     RateLimit      : {1000},
     MaxRetries     : -1..MaxSuppliedRetries,
     RetryDelay     : {0}]

\* For the runs whose Fetcher calls do not overlap: the default rate_limit,
\* the default retry_delay or one of 7ms.
SuppliedConfigsSeq ==
    [GCRAccessToken : {<<>>, <<"t">>},
     RateLimit      : {0},
     MaxRetries     : -1..MaxSuppliedRetries,
     RetryDelay     : {0, 7}]

(***************************************************************************)
(* State                                                                   *)
(***************************************************************************)
VARIABLES
    config,          \* the global Config after loadConfig
    configFile,      \* what config.yaml holds: the keys present and their values
    output,          \* the lines of `docker image ls`
    parseLog,        \* the lines getLocalImages has logged as unparseable
    localImages,     \* main's localImages
    compared,        \* compareTags of each image and each served tag list
    delivered,       \* ticks the ticker has put into rateLimiter.C
    served,          \* the tag list the registry serves for each repository
    cache,           \* main's cache map: cache key -> tags
    tickC,           \* rateLimiter.C, a channel of capacity 1: ticks buffered
    wg,              \* the WaitGroup counter
    results,         \* the results channel's buffer
    closed,          \* whether results is closed
    spawned,         \* how many check goroutines main has started
    mainPc,          \* main: "spawn", "range", "done"
    closerPc,        \* the closer goroutine: "unborn", "waiting", "done"
    crashed,         \* the process died of a fatal error or a panic
    pc,              \* each check goroutine's position
    loopI,           \* getRemoteTags' i
    retryDelay,      \* getRemoteTags' retryDelay
    resp,            \* getRemoteTags' resp, err of the last attempt
    remoteTags,      \* the tags getRemoteTags returns
    err,             \* the error checkForUpdates returns
    update,          \* the string checkForUpdates returns
    \* What has been observed of the run:
    reqsInInterval,  \* HTTP requests sent since the last tick
    attempts,        \* HTTP requests each check has sent
    sleeps,          \* the durations each check has slept, in order
    sleepLeft,       \* ticker firings that the check's time.Sleep still spans
    ticks,           \* ticks each check has received
    hit,             \* whether the check's lookup found its key
    logged,          \* diagnostic lines written for each check
    printed,         \* lines printed for each check's result
    printedText      \* the set of lines printed

vars == <<config, configFile, output, parseLog, compared, localImages, delivered, served, cache, tickC, wg, results, closed, spawned,
          mainPc, closerPc, crashed, pc, loopI, retryDelay, resp, remoteTags,
          err, update, reqsInInterval, attempts, sleeps, sleepLeft, ticks, hit,
          logged, printed, printedText>>

mainVars == <<wg, results, closed, spawned, mainPc, closerPc, printed, printedText>>

fetchVars == <<loopI, retryDelay, resp, attempts, sleeps>>

\* time.Sleep(d) lasts at least d, so at least d / RateLimit firings of the
\* ticker fall into it.
TicksWithin(d) == IF d > 0 THEN d \div config.RateLimit ELSE 0

Checks == 1..Len(localImages)

InitWith(file, lines, tagsOf) ==
    /\ configFile = file
    /\ config = loadConfig(Unmarshal(file))
    /\ output = OutputLines(lines)
    /\ parseLog = parseErrorLog(OutputLines(lines))
    /\ localImages = getLocalImages(lines)
    /\ compared = [g \in 1..Len(getLocalImages(lines)) |->
                      [tags \in {tagsOf[getLocalImages(lines)[k].Repo] :
                                    k \in 1..Len(getLocalImages(lines))} |->
                          compareTags(getLocalImages(lines)[g], tags)]]
    /\ delivered = 0
    /\ served = [repo \in {getLocalImages(lines)[k].Repo : k \in 1..Len(getLocalImages(lines))}
                    |-> tagsOf[repo]]
    /\ cache = <<>>
    /\ tickC = 0
    /\ wg = 0
    /\ results = <<>>
    /\ closed = FALSE
    /\ spawned = 0
    /\ mainPc = "spawn"
    /\ closerPc = "unborn"
    /\ crashed = FALSE
    /\ pc = [g \in 1..Len(getLocalImages(lines)) |-> "unborn"]
    /\ loopI = [g \in 1..Len(getLocalImages(lines)) |-> 0]
    /\ retryDelay = [g \in 1..Len(getLocalImages(lines)) |-> 0]
    /\ resp = [g \in 1..Len(getLocalImages(lines)) |-> NilResp]
    /\ remoteTags = [g \in 1..Len(getLocalImages(lines)) |-> <<>>]
    /\ err = [g \in 1..Len(getLocalImages(lines)) |-> NoErr]
    /\ update = [g \in 1..Len(getLocalImages(lines)) |-> NoUpdate]
    /\ reqsInInterval = 0
    /\ attempts = [g \in 1..Len(getLocalImages(lines)) |-> 0]
    /\ sleeps = [g \in 1..Len(getLocalImages(lines)) |-> <<>>]
    /\ sleepLeft = [g \in 1..Len(getLocalImages(lines)) |-> 0]
    /\ ticks = [g \in 1..Len(getLocalImages(lines)) |-> 0]
    /\ hit = [g \in 1..Len(getLocalImages(lines)) |-> FALSE]
    /\ logged = [g \in 1..Len(getLocalImages(lines)) |-> 0]
    /\ printed = [g \in 1..Len(getLocalImages(lines)) |-> 0]
    /\ printedText = {}

Repos == {parseImageName(AllLines[k]).Repo : k \in 1..Len(AllLines)}

Init ==
    \E supplied \in SuppliedConfigs, lines \in LineLists :
        InitWith(FileOf(supplied), lines, [repo \in Repos |-> DefaultServed(repo)])

Running == ~crashed /\ mainPc # "done"

(***************************************************************************)
(* main                                                                    *)
(***************************************************************************)
\* One iteration of the loop over localImages: wg.Add(1); go func(img).
Spawn ==
    /\ Running
    /\ mainPc = "spawn"
    /\ spawned < Len(localImages)
    /\ spawned' = spawned + 1
    /\ wg' = wg + 1
    /\ pc' = [pc EXCEPT ![spawned + 1] = "wait"]
    /\ UNCHANGED <<config, configFile, output, parseLog, compared, localImages, delivered, served, cache, tickC, results, closed, mainPc,
                   closerPc, crashed, loopI, retryDelay, resp, remoteTags, err,
                   update, reqsInInterval, attempts, sleeps, sleepLeft, ticks, hit, logged,
                   printed, printedText>>

\* After the loop: go func() { wg.Wait(); close(results) }(), then the range.
StartCloser ==
    /\ Running
    /\ mainPc = "spawn"
    /\ spawned = Len(localImages)
    /\ closerPc' = "waiting"
    /\ mainPc' = "range"
    /\ UNCHANGED <<config, configFile, output, parseLog, compared, localImages, delivered, served, cache, tickC, wg, results, closed, spawned,
                   crashed, pc, loopI, retryDelay, resp, remoteTags, err, update,
                   reqsInInterval, attempts, sleeps, sleepLeft, ticks, hit, logged, printed,
                   printedText>>

\* The channel is closed before the WaitGroup's counter is zero.
CloseResultsAtOnce ==
    /\ Running
    /\ closerPc = "waiting"
    /\ closerPc' = "done"
    /\ IF closed THEN crashed' = TRUE /\ closed' = closed
       ELSE closed' = TRUE /\ crashed' = crashed
    /\ UNCHANGED <<config, configFile, output, parseLog, compared, localImages, delivered, served, cache,
                   tickC, wg, results, spawned, mainPc, pc, loopI, retryDelay, resp,
                   remoteTags, err, update, reqsInInterval, attempts, sleeps, sleepLeft,
                   ticks, hit, logged, printed, printedText>>

\* wg.Wait() returns and the closer closes the channel.
CloseResults ==
    /\ Running
    /\ closerPc = "waiting"
    /\ wg = 0
    /\ closerPc' = "done"
    /\ IF closed THEN crashed' = TRUE /\ closed' = closed
       ELSE closed' = TRUE /\ crashed' = crashed
    /\ UNCHANGED <<config, configFile, output, parseLog, compared, localImages, delivered, served, cache, tickC, wg, results, spawned, mainPc,
                   pc, loopI, retryDelay, resp, remoteTags, err, update,
                   reqsInInterval, attempts, sleeps, sleepLeft, ticks, hit, logged, printed,
                   printedText>>

\* for result := range results { fmt.Println(result) }: one value received.
PrintResult ==
    /\ Running
    /\ mainPc = "range"
    /\ results # <<>>
    /\ printed' = [printed EXCEPT ![Head(results).from] = @ + 1]
    /\ printedText' = printedText \cup {Head(results).text}
    /\ results' = Tail(results)
    /\ UNCHANGED <<config, configFile, output, parseLog, compared, localImages, delivered, served, cache, tickC, wg, closed, spawned, mainPc,
                   closerPc, crashed, pc, loopI, retryDelay, resp, remoteTags, err,
                   update, reqsInInterval, attempts, sleeps, sleepLeft, ticks, hit, logged>>

\* The range ends when the channel is closed and drained; main returns.
MainReturn ==
    /\ Running
    /\ mainPc = "range"
    /\ results = <<>>
    /\ closed
    /\ mainPc' = "done"
    /\ UNCHANGED <<config, configFile, output, parseLog, compared, localImages, delivered, served, cache, tickC, wg, results, closed, spawned,
                   closerPc, crashed, pc, loopI, retryDelay, resp, remoteTags, err,
                   update, reqsInInterval, attempts, sleeps, sleepLeft, ticks, hit, logged,
                   printed, printedText>>

(***************************************************************************)
(* The rate limiter: time.NewTicker(config.RateLimit)                      *)
(***************************************************************************)
\* The ticker fires: the tick is buffered, or dropped when one is buffered
\* already.  A new interval starts.
Tick ==
    /\ Running
    /\ tickC' = 1
    /\ delivered' = IF tickC = 0 THEN delivered + 1 ELSE delivered
    /\ reqsInInterval' = 0
    /\ sleepLeft' = [g \in DOMAIN sleepLeft |-> IF sleepLeft[g] > 0 THEN sleepLeft[g] - 1 ELSE 0]
    /\ UNCHANGED <<config, configFile, output, parseLog, compared, localImages, served, cache, crashed, pc, remoteTags, err,
                   update, ticks, hit, logged>>
    /\ UNCHANGED mainVars
    /\ UNCHANGED fetchVars

(***************************************************************************)
(* A check goroutine: <-rateLimiter.C, checkForUpdates, the result.        *)
(***************************************************************************)
\* The goroutine does not wait for the limiter.
RecvNoTick(g) ==
    /\ Running
    /\ pc[g] = "wait"
    /\ pc' = [pc EXCEPT ![g] = "lookup"]
    /\ UNCHANGED <<config, configFile, output, parseLog, compared, localImages, delivered, served, cache, tickC, crashed, remoteTags,
                   err, update, reqsInInterval, ticks, hit, logged>>
    /\ UNCHANGED mainVars
    /\ UNCHANGED <<fetchVars, sleepLeft>>

\* The goroutine sees the tick but leaves it in the channel for the others.
RecvTickShared(g) ==
    /\ Running
    /\ pc[g] = "wait"
    /\ tickC = 1
    /\ ticks' = [ticks EXCEPT ![g] = @ + 1]
    /\ pc' = [pc EXCEPT ![g] = "lookup"]
    /\ UNCHANGED <<config, configFile, output, parseLog, compared, localImages, delivered, served, cache,
                   tickC, crashed, remoteTags, err, update, reqsInInterval, hit, logged>>
    /\ UNCHANGED mainVars
    /\ UNCHANGED <<fetchVars, sleepLeft>>

\* <-rateLimiter.C, and the goroutine enters getRemoteTags: its read of the
\* cache map is under way.
RecvTick(g) ==
    /\ Running
    /\ pc[g] = "wait"
    /\ tickC = 1
    /\ tickC' = 0
    /\ ticks' = [ticks EXCEPT ![g] = @ + 1]
    /\ pc' = [pc EXCEPT ![g] = "lookup"]
    /\ UNCHANGED <<config, configFile, output, parseLog, compared, localImages, delivered, served, cache, crashed, remoteTags, err, update,
                   reqsInInterval, hit, logged>>
    /\ UNCHANGED mainVars
    /\ UNCHANGED <<fetchVars, sleepLeft>>

\* checkForUpdates once getRemoteTags has returned tags: what it returns, and
\* main's log.Printf of its error.  compareTags depends on the image and the
\* tags alone; its values for the run's images and tag lists are in compared.
AfterTags(g, tags) ==
    LET r == compared[g][tags]
    IN  /\ err' = [err EXCEPT ![g] = r.err]
        /\ update' = [update EXCEPT ![g] = r.update]
        /\ logged' = [logged EXCEPT ![g] = IF r.err # NoErr THEN @ + 1 ELSE @]
        /\ pc' = [pc EXCEPT ![g] = IF r.err = NoErr /\ r.update.avail
                                   THEN "send" ELSE "exit"]

\* The error is returned but not logged.
FailFetchSilent(g, e) ==
    /\ err' = [err EXCEPT ![g] = <<"error getting remote tags">> \o e]
    /\ pc' = [pc EXCEPT ![g] = "exit"]
    /\ UNCHANGED <<update, logged>>

\* An image whose tag is no version is reported for its tag, whatever the
\* Fetcher's error.
FailFetchOrParse(g, e) ==
    /\ err' = [err EXCEPT ![g] = IF NewVersion(localImages[g].Tag).valid
                                 THEN <<"error getting remote tags">> \o e
                                 ELSE <<"error parsing current version">>]
    /\ logged' = [logged EXCEPT ![g] = @ + 1]
    /\ pc' = [pc EXCEPT ![g] = "exit"]
    /\ UNCHANGED update

\* getRemoteTags returns an error: checkForUpdates wraps it, main logs it.
FailFetch(g, e) ==
    /\ err' = [err EXCEPT ![g] = <<"error getting remote tags">> \o e]
    /\ logged' = [logged EXCEPT ![g] = @ + 1]
    /\ pc' = [pc EXCEPT ![g] = "exit"]
    /\ UNCHANGED update

\* cachedTags, ok := cache[cacheKey]: the read completes.
Lookup(g) ==
    /\ Running
    /\ pc[g] = "lookup"
    /\ IF cacheKey(localImages[g]) \in DOMAIN cache
       THEN /\ hit' = [hit EXCEPT ![g] = TRUE]
            /\ remoteTags' = [remoteTags EXCEPT ![g] = cache[cacheKey(localImages[g])]]
            /\ AfterTags(g, cache[cacheKey(localImages[g])])
            /\ UNCHANGED <<loopI, retryDelay>>
       ELSE /\ loopI' = [loopI EXCEPT ![g] = 0]
            /\ retryDelay' = [retryDelay EXCEPT ![g] = config.RetryDelay]
            /\ pc' = [pc EXCEPT ![g] = "fetch"]
            /\ UNCHANGED <<hit, remoteTags, err, update, logged>>
    /\ UNCHANGED <<config, configFile, output, parseLog, compared, localImages, delivered, served, cache, tickC, crashed, resp,
                   reqsInInterval, attempts, sleeps, sleepLeft, ticks>>
    /\ UNCHANGED mainVars

\* The last failed attempt too is followed by a sleep.
RetriesLeftAtLast(i) == i < config.MaxRetries

\* i < config.MaxRetries-1: the failed attempt is followed by another.
RetriesLeft(i) == i < config.MaxRetries - 1

\* The token is never found missing.
TokenMissingNever == FALSE

\* config.GCRAccessToken == "" (authMethod is always "gcloud").
TokenMissing == config.GCRAccessToken = <<>>

\* The text after "max retries exceeded: ".
LastFailure(r) ==
    IF r.neterr THEN <<"error fetching tags">> ELSE <<"unexpected status code", r.status>>

\* One iteration of the retry loop, entered once the sleep of the iteration
\* before is over: the request is created, the token checked, the request
\* sent and answered with `outcome`; on failure the goroutine starts its sleep
\* and doubles the delay, or gives up; on a 200 the body is decoded and the
\* write of the cache map begins.
Attempt(g, outcome) ==
    /\ Running
    /\ pc[g] = "fetch"
    /\ loopI[g] < config.MaxRetries
    /\ sleepLeft[g] = 0
    /\ IF NewRequestFails(localImages[g].Registry)
       THEN /\ FailFetch(g, <<"error creating HTTP request">>)
            /\ UNCHANGED <<fetchVars, sleepLeft, reqsInInterval, remoteTags>>
       ELSE IF TokenMissing
       THEN /\ FailFetch(g, <<"GCR_ACCESS_TOKEN not set in config">>)
            /\ UNCHANGED <<fetchVars, sleepLeft, reqsInInterval, remoteTags>>
       ELSE /\ attempts' = [attempts EXCEPT ![g] = @ + 1]
            /\ reqsInInterval' = IF reqsInInterval < MaxReqCount
                                 THEN reqsInInterval + 1 ELSE reqsInInterval
            /\ resp' = [resp EXCEPT ![g] = outcome]
            /\ IF IsSuccess(outcome)
               THEN /\ UNCHANGED <<loopI, retryDelay, sleeps, sleepLeft>>
                    /\ IF outcome.json
                       THEN /\ remoteTags' = [remoteTags EXCEPT ![g] =
                                   served[localImages[g].Repo]]
                            /\ pc' = [pc EXCEPT ![g] = "store"]
                            /\ UNCHANGED <<err, update, logged>>
                       ELSE /\ FailFetch(g, <<"error decoding JSON response">>)
                            /\ UNCHANGED remoteTags
               ELSE IF RetriesLeft(loopI[g])
               THEN /\ sleeps' = [sleeps EXCEPT ![g] = Append(@, retryDelay[g])]
                    /\ sleepLeft' = [sleepLeft EXCEPT ![g] = TicksWithin(retryDelay[g])]
                    /\ retryDelay' = [retryDelay EXCEPT ![g] = NextDelay(@)]
                    /\ loopI' = [loopI EXCEPT ![g] = @ + 1]
                    /\ UNCHANGED <<pc, err, update, logged, remoteTags>>
               ELSE /\ FailFetch(g, <<"max retries exceeded">> \o LastFailure(outcome))
                    /\ UNCHANGED <<loopI, retryDelay, sleeps, sleepLeft, remoteTags>>
    /\ UNCHANGED <<config, configFile, output, parseLog, compared, localImages, delivered, served, cache, tickC, crashed, ticks, hit>>
    /\ UNCHANGED mainVars

\* The loop ends with no iteration left and resp still nil: resp.Body of a nil
\* response is a nil pointer dereference, a panic that ends the process.
NilDeref(g) ==
    /\ Running
    /\ pc[g] = "fetch"
    /\ ~(loopI[g] < config.MaxRetries)
    /\ crashed' = TRUE
    /\ UNCHANGED <<config, configFile, output, parseLog, compared, localImages, delivered, served, cache, tickC, pc, remoteTags, err, update,
                   reqsInInterval, ticks, hit, logged>>
    /\ UNCHANGED mainVars
    /\ UNCHANGED <<fetchVars, sleepLeft>>

\* The tags are returned but not stored.
StoreNothing(g) ==
    /\ Running
    /\ pc[g] = "store"
    /\ AfterTags(g, remoteTags[g])
    /\ UNCHANGED <<config, configFile, output, parseLog, compared, localImages, delivered, served, cache, tickC, crashed, remoteTags,
                   reqsInInterval, ticks, hit>>
    /\ UNCHANGED mainVars
    /\ UNCHANGED <<fetchVars, sleepLeft>>

\* cache[cacheKey] = result.Tags: the write completes, getRemoteTags returns.
Store(g) ==
    /\ Running
    /\ pc[g] = "store"
    /\ cache' = [k \in DOMAIN cache \cup {cacheKey(localImages[g])} |->
                    IF k = cacheKey(localImages[g]) THEN remoteTags[g] ELSE cache[k]]
    /\ AfterTags(g, remoteTags[g])
    /\ UNCHANGED <<config, configFile, output, parseLog, compared, localImages, delivered, served, tickC, crashed, remoteTags, reqsInInterval,
                   ticks, hit>>
    /\ UNCHANGED mainVars
    /\ UNCHANGED <<fetchVars, sleepLeft>>

\* A goroutine is writing the map while another reads or writes it.
MapRace == \E g, h \in Checks : g # h /\ pc[g] = "store" /\ pc[h] \in {"lookup", "store"}

\* The Go runtime detects the concurrent map access and throws
\* "fatal error: concurrent map read and map write" (or "concurrent map
\* writes"): the process dies.  When it does not detect it, the accesses take
\* effect in either order (Lookup and Store), or two writes land in one slot
\* (StoreTorn).
MapFault ==
    /\ Running
    /\ MapRace
    /\ crashed' = TRUE
    /\ UNCHANGED <<config, configFile, output, parseLog, compared, localImages, delivered, served, cache, tickC, pc, remoteTags, err, update,
                   reqsInInterval, ticks, hit, logged>>
    /\ UNCHANGED mainVars
    /\ UNCHANGED <<fetchVars, sleepLeft>>

\* Two goroutines write the map at once and the runtime does not detect it:
\* both writes take the same free slot, and the key that g wrote is left with
\* the value that the other goroutine wrote.  getRemoteTags still returns
\* its own result.Tags.
StoreTorn(g) ==
    /\ Running
    /\ pc[g] = "store"
    /\ \E h \in Checks :
           /\ h # g
           /\ pc[h] = "store"
           /\ cache' = [k \in DOMAIN cache \cup {cacheKey(localImages[g])} |->
                           IF k = cacheKey(localImages[g]) THEN remoteTags[h] ELSE cache[k]]
    /\ AfterTags(g, remoteTags[g])
    /\ UNCHANGED <<config, configFile, output, parseLog, compared, localImages, delivered, served, tickC,
                   crashed, remoteTags, reqsInInterval, ticks, hit>>
    /\ UNCHANGED mainVars
    /\ UNCHANGED <<fetchVars, sleepLeft>>

\* results <- update.  The channel's capacity is len(localImages); a send on
\* a closed channel panics.
Send(g) ==
    /\ Running
    /\ pc[g] = "send"
    /\ closed \/ Len(results) < Len(localImages)
    /\ IF closed
       THEN crashed' = TRUE /\ UNCHANGED <<results, pc>>
       ELSE /\ results' = Append(results, [from |-> g, text |-> update[g]])
            /\ pc' = [pc EXCEPT ![g] = "exit"]
            /\ UNCHANGED crashed
    /\ UNCHANGED <<config, configFile, output, parseLog, compared, localImages, delivered, served, cache, tickC, wg, closed, spawned, mainPc,
                   closerPc, remoteTags, err, update, reqsInInterval, ticks, hit,
                   logged, printed, printedText>>
    /\ UNCHANGED <<fetchVars, sleepLeft>>

\* The deferred wg.Done().
Done(g) ==
    /\ Running
    /\ pc[g] = "exit"
    /\ wg' = wg - 1
    /\ pc' = [pc EXCEPT ![g] = "done"]
    /\ UNCHANGED <<config, configFile, output, parseLog, compared, localImages, delivered, served, cache, tickC, results, closed, spawned,
                   mainPc, closerPc, crashed, remoteTags, err, update,
                   reqsInInterval, ticks, hit, logged, printed, printedText>>
    /\ UNCHANGED <<fetchVars, sleepLeft>>

Next ==
    \/ Spawn
    \/ StartCloser
    \/ CloseResults
    \/ PrintResult
    \/ MainReturn
    \/ Tick
    \/ MapFault
    \/ \E g \in Checks : RecvTick(g)
    \/ \E g \in Checks : Lookup(g)
    \/ \E g \in Checks, outcome \in Outcomes : Attempt(g, outcome)
    \/ \E g \in Checks : NilDeref(g)
    \/ \E g \in Checks : Store(g)
    \/ \E g \in Checks : StoreTorn(g)
    \/ \E g \in Checks : Send(g)
    \/ \E g \in Checks : Done(g)

Spec == Init /\ [][Next]_vars

(***************************************************************************)
(* Runs in which the Fetcher calls do not overlap: a check receives its    *)
(* tick only while no other check is inside checkForUpdates.  The map is   *)
(* then never accessed concurrently.                                       *)
(***************************************************************************)
NoCallActive == \A h \in Checks : pc[h] \notin {"lookup", "fetch", "store"}

RecvTickAlone(g) == NoCallActive /\ RecvTick(g)

InitSeq ==
    \E supplied \in SuppliedConfigsSeq, lines \in LineLists :
        InitWith(FileOf(supplied), lines, [repo \in Repos |-> DefaultServed(repo)])

NextSeq ==
    \/ Spawn
    \/ StartCloser
    \/ CloseResults
    \/ PrintResult
    \/ MainReturn
    \/ Tick
    \/ \E g \in Checks : RecvTickAlone(g)
    \/ \E g \in Checks : Lookup(g)
    \/ \E g \in Checks, outcome \in Outcomes : Attempt(g, outcome)
    \/ \E g \in Checks : NilDeref(g)
    \/ \E g \in Checks : Store(g)
    \/ \E g \in Checks : Send(g)
    \/ \E g \in Checks : Done(g)

SpecSeq == InitSeq /\ [][NextSeq]_vars

(***************************************************************************)
(* Properties                                                              *)
(***************************************************************************)
SameKey(g, h) == cacheKey(localImages[g]) = cacheKey(localImages[h])

\* The check's getRemoteTags call has returned (with tags or an error).
Returned(g) == pc[g] \in {"send", "exit", "done"}

FetchFailed(g) == Len(err[g]) >= 1 /\ err[g][1] = "error getting remote tags"

\* The call received a 200 response whose body decoded.
Fetched(g) == IsSuccess(resp[g]) /\ resp[g].json

\* C1: at most one successful network fetch (a 200 response with the tag
\* list) per cache key, however the concurrent checks of that key interleave.
OneFetchPerKey ==
    \A g, h \in Checks : (g # h /\ SameKey(g, h)) => ~(Fetched(g) /\ Fetched(h))

\* C2: no check writes the cache map while another check reads or writes it.
NoUnsynchronizedMapAccess == ~MapRace

\* C3: at most one HTTP request, first attempts and retries of all checks
\* counted, is sent between two consecutive ticks of the limiter.
OneRequestPerInterval == reqsInInterval <= 1

\* The delays before the first n retries: retryBaseDelay, doubled each time.
ExpectedDelays(n) == [k \in 1..n |-> config.RetryDelay * (2 ^ (k - 1))]

MaxRetriesExceeded(g) ==
    /\ Len(err[g]) >= 2
    /\ err[g][1] = "error getting remote tags"
    /\ err[g][2] = "max retries exceeded"

AuthError == <<"error getting remote tags", "GCR_ACCESS_TOKEN not set in config">>

RequestError == <<"error getting remote tags", "error creating HTTP request">>

\* C5 as stated: with an empty token and maxRetries >= 1, a call on an
\* uncached key fails with the authentication-configuration error, with no
\* request sent, no retry, no sleep, and the cache unchanged.
MissingTokenFailsWithAuthError ==
    \A g \in Checks :
        (config.GCRAccessToken = <<>> /\ config.MaxRetries >= 1 /\ Returned(g) /\ ~hit[g]) =>
            /\ err[g] = AuthError
            /\ attempts[g] = 0
            /\ sleeps[g] = <<>>
            /\ loopI[g] = 0
            /\ cache = <<>>

\* C5 amended: the call fails at once, with the authentication-configuration
\* error, or with the request-creation error when the request URL cannot be
\* built from the registry; no request is sent, nothing is retried or slept,
\* and the cache is unchanged.
MissingTokenFailsAtOnce ==
    \A g \in Checks :
        (config.GCRAccessToken = <<>> /\ config.MaxRetries >= 1 /\ Returned(g) /\ ~hit[g]) =>
            /\ err[g] = IF NewRequestFails(localImages[g].Registry)
                        THEN RequestError ELSE AuthError
            /\ attempts[g] = 0
            /\ sleeps[g] = <<>>
            /\ loopI[g] = 0
            /\ cache = <<>>

MissingTokenWitness ==
    \E g \in Checks :
        /\ config.GCRAccessToken = <<>>
        /\ config.MaxRetries = 3
        /\ Returned(g)
        /\ err[g] = AuthError

\* HTTP requests sent for a cache key by checks k..Len(localImages).
RECURSIVE RequestsFor(_, _)
RequestsFor(key, k) ==
    IF k > Len(localImages) THEN 0
    ELSE (IF cacheKey(localImages[k]) = key THEN attempts[k] ELSE 0)
             + RequestsFor(key, k + 1)

\* C6 as stated: non-overlapping Fetcher calls for one key send at most one
\* HTTP request in total.
OneRequestPerKey ==
    \A g \in Checks : RequestsFor(cacheKey(localImages[g]), 1) <= 1

\* C6 amended: among non-overlapping Fetcher calls for one key at most one
\* receives a 200 response that decodes (the call that fills the cache); the
\* calls before it may each send up to maxRetries requests, and every cache
\* hit sends no request and returns the tags that call stored.
OneFetchThenHits ==
    \A g \in Checks :
        /\ attempts[g] <= IF config.MaxRetries > 0 THEN config.MaxRetries ELSE 0
        /\ \A h \in Checks : (g # h /\ SameKey(g, h)) => ~(Fetched(g) /\ Fetched(h))
        /\ (Fetched(g) /\ Returned(g)) =>
               /\ cacheKey(localImages[g]) \in DOMAIN cache
               /\ cache[cacheKey(localImages[g])] = remoteTags[g]
               /\ \A h \in Checks :
                      (h # g /\ SameKey(g, h)) => pc[h] \notin {"fetch", "store"}
        /\ hit[g] =>
               /\ attempts[g] = 0
               /\ \E h \in Checks :
                      /\ h # g
                      /\ SameKey(g, h)
                      /\ Fetched(h)
                      /\ remoteTags[g] = remoteTags[h]

OneFetchThenHitsWitness ==
    \E g, h \in Checks :
        /\ g # h
        /\ SameKey(g, h)
        /\ Fetched(h)
        /\ attempts[h] > 1
        /\ hit[g]
        /\ pc[g] = "done"
        /\ pc[h] = "done"

\* C7 as stated: a check whose key is in the cache consumes no tick.
CacheHitTakesNoTick == \A g \in Checks : hit[g] => ticks[g] = 0

\* C7 amended: every check receives exactly one tick, before its lookup; the
\* lookup of a cached key then returns the tags with no request sent and no
\* further tick taken.
OneTickBeforeLookup ==
    \A g \in Checks :
        /\ ticks[g] = IF pc[g] \in {"unborn", "wait"} THEN 0 ELSE 1
        /\ hit[g] => attempts[g] = 0 /\ ticks[g] = 1 /\ Returned(g)

CacheHitWitness ==
    \E g \in Checks : hit[g] /\ ticks[g] = 1 /\ attempts[g] = 0 /\ pc[g] = "done"

\* C9: a check that fails (fetch, authentication, decode or version-parse
\* error) writes one diagnostic line and nothing to the result stream, which
\* holds "Update available" lines only; it still releases the WaitGroup, so
\* that the run ends with every other check done and its result printed.
FailureScopedToImage ==
    /\ \A g \in Checks :
           /\ err[g] # NoErr =>
                  /\ logged[g] = 1
                  /\ printed[g] = 0
                  /\ update[g] = NoUpdate
                  /\ pc[g] \in {"exit", "done"}
                  /\ \A k \in 1..Len(results) : results[k].from # g
           /\ err[g] = NoErr => logged[g] = 0
    /\ \A k \in 1..Len(results) : results[k].text.avail
    /\ \A t \in printedText : t.avail
    /\ wg = Cardinality({g \in Checks : pc[g] \notin {"unborn", "done"}})
    /\ mainPc = "done" =>
           \A g \in Checks :
               /\ pc[g] = "done"
               /\ (err[g] = NoErr /\ update[g].avail) => printed[g] = 1

FailureScopedWitness ==
    /\ mainPc = "done"
    /\ \E g, h, k \in Checks :
           /\ err[g] = <<"error parsing current version">>
           /\ MaxRetriesExceeded(k)
           /\ err[h] = NoErr
           /\ printed[h] = 1

\* C10: when the run has ended, every check that completed without error and
\* with a non-empty result has had it printed exactly once; nothing else is
\* printed, and nothing twice.
EveryResultPrintedOnce ==
    \A g \in Checks :
        /\ printed[g] <= 1
        /\ printed[g] = 1 => (err[g] = NoErr /\ update[g].avail)
        /\ ((mainPc = "done" \/ crashed) /\ pc[g] \in {"exit", "done"}
                /\ err[g] = NoErr /\ update[g].avail) => printed[g] = 1

(***************************************************************************)
(* Runs of one check, over a range of local tags and served tag lists: the *)
(* comparison of checkForUpdates on each.                                  *)
(***************************************************************************)
\* A served tag list has at most this many tags.
MaxTags == 3

\* 1.0.0, 1.0.1, v1.1, 1.0.1-rc, 1.0.1+b, abc.
CmpTags ==
    { <<"1", ".", "0", ".", "0">>,
      <<"1", ".", "0", ".", "1">>,
      <<"v", "1", ".", "1">>,
      <<"1", ".", "0", ".", "1", "-", "r", "c">>,
      <<"1", ".", "0", ".", "1", "+", "b">>,
      <<"a", "b", "c">> }

RECURSIVE TagListsOf(_)
TagListsOf(n) ==
    IF n = 0 THEN {<<>>}
    ELSE TagListsOf(n - 1) \cup
         {Append(l, t) : l \in {m \in TagListsOf(n - 1) : Len(m) = n - 1}, t \in CmpTags}

InitCmp ==
    \E tag \in CmpTags, list \in TagListsOf(MaxTags) :
        InitWith(FileOf([GCRAccessToken |-> <<"t">>, RateLimit |-> 0, MaxRetries |-> 1,
                         RetryDelay |-> 0]),
                 << <<"r", "/", "a", ":">> \o tag >>,
                 [repo \in Repos |-> list])

NextCmp ==
    \/ Spawn
    \/ StartCloser
    \/ CloseResults
    \/ PrintResult
    \/ MainReturn
    \/ Tick
    \/ \E g \in Checks : RecvTick(g)
    \/ \E g \in Checks : Lookup(g)
    \/ \E g \in Checks, outcome \in Outcomes : Attempt(g, outcome)
    \/ \E g \in Checks : Store(g)
    \/ \E g \in Checks : Send(g)
    \/ \E g \in Checks : Done(g)

SpecCmp == InitCmp /\ [][NextCmp]_vars

\* The positions of the remote tags that parse as versions.
Parseable(tags) == {k \in 1..Len(tags) : NewVersion(tags[k]).valid}

\* Those among them that no other parseable tag exceeds.
Greatest(tags) ==
    {k \in Parseable(tags) :
        \A j \in Parseable(tags) : ~GreaterThan(NewVersion(tags[j]), NewVersion(tags[k]))}

\* C8: for an image whose tag parses, checkForUpdates reports "Update
\* available for {repo}: {current} -> {latest}" exactly when the greatest of
\* the remote tags that parse exceeds the current version, with that greatest
\* version as {latest}; tags that do not parse are ignored, and otherwise the
\* result is empty, with no error.
UpdateIffGreaterRemote ==
    \A g \in Checks :
        (Returned(g) /\ ~FetchFailed(g) /\ NewVersion(localImages[g].Tag).valid) =>
            LET cur  == NewVersion(localImages[g].Tag)
                tags == remoteTags[g]
                newer == {k \in Greatest(tags) : GreaterThan(NewVersion(tags[k]), cur)}
            IN  /\ err[g] = NoErr
                /\ update[g].avail <=> newer # {}
                /\ update[g].avail =>
                       /\ update[g].repo = localImages[g].Repo
                       /\ update[g].current = VersionString(cur)
                       /\ \E k \in newer : update[g].latest = VersionString(NewVersion(tags[k]))
                /\ ~update[g].avail => update[g] = NoUpdate

\* The spec's example, with a tag that does not parse in the list.
UpdateIffGreaterRemoteWitness ==
    \E g \in Checks :
        /\ pc[g] = "done"
        /\ localImages[g].Tag = <<"1", ".", "0", ".", "0">>
        /\ remoteTags[g] = << <<"1", ".", "0", ".", "0">>, <<"1", ".", "0", ".", "1">>,
                              <<"a", "b", "c">> >>
        /\ update[g].avail
        /\ update[g].current = <<"1", ".", "0", ".", "0">>
        /\ update[g].latest = <<"1", ".", "0", ".", "1">>
        /\ printed[g] = 1

(***************************************************************************)
(* Runs over a range of configuration files and of image names: what       *)
(* loadConfig and parseImageName make of each.                             *)
(***************************************************************************)
\* r/a:1.0.0, r/a/b:1.0.0, 1:5/a:1.0.0, and three names parseImageName
\* rejects: a:1.0.0 (no '/'), r/a (no ':'), r/a:1:0 (two ':').
ParseNames ==
    { <<"r", "/", "a", ":", "1", ".", "0", ".", "0">>,
      <<"r", "/", "a", "/", "b", ":", "1", ".", "0", ".", "0">>,
      <<"1", ":", "5", "/", "a", ":", "1", ".", "0", ".", "0">>,
      <<"a", ":", "1", ".", "0", ".", "0">>,
      <<"r", "/", "a">>,
      <<"r", "/", "a", ":", "1", ":", "0">> }

\* config.yaml with any of its keys present or absent; a key that is present
\* can hold the zero value.  A key that is absent holds nothing.
LoadFiles ==
    {f \in [keys             : SUBSET ConfigKeys,
            gcr_access_token : {<<>>, <<"t">>},
            rate_limit       : {0, 1000},
            max_retries      : -1..MaxSuppliedRetries,
            retry_delay      : {0, 7}] :
        /\ "gcr_access_token" \notin f.keys => f.gcr_access_token = <<>>
        /\ "gcr_access_token" \in f.keys => f.gcr_access_token # <<>>
        /\ "rate_limit" \notin f.keys => f.rate_limit = 0
        /\ "max_retries" \notin f.keys => f.max_retries = 0
        /\ "retry_delay" \notin f.keys => f.retry_delay = 0}

InitLoad ==
    \E file \in LoadFiles, lines \in {<<>>} \cup {<<n>> : n \in ParseNames} :
        InitWith(file, lines,
                 [repo \in {parseImageName(n).Repo : n \in ParseNames} |->
                     DefaultServed(repo)])

SpecLoad == InitLoad /\ [][NextSeq]_vars

IsImageName(line) == parseImageName(line).ok

\* The position of the last ':' of a line, 0 if it has none.
LastColon(line) ==
    IF \E k \in 1..Len(line) : line[k] = ":"
    THEN CHOOSE k \in 1..Len(line) :
             line[k] = ":" /\ \A j \in (k + 1)..Len(line) : line[j] # ":"
    ELSE 0

\* C11: for every accepted image name, the registry is the first segment,
\* the tag the text after the last colon, the repository exactly the text
\* between the registry's '/' and that colon, and the cache key
\* registry/repository has no empty path segment.
RepositoryIsTextBetween ==
    \A g \in Checks :
        LET line  == SelectSeq(output, IsImageName)[g]
            slash == IndexOf(line, "/")
            colon == LastColon(line)
            key   == Split(cacheKey(localImages[g]), "/")
        IN  /\ localImages[g].Registry = SubSeq(line, 1, slash - 1)
            /\ localImages[g].Tag = SubSeq(line, colon + 1, Len(line))
            /\ localImages[g].Repo = SubSeq(line, slash + 1, colon - 1)
            /\ \A k \in 1..Len(key) : key[k] # <<>>

PastGate == {g \in Checks : pc[g] \notin {"unborn", "wait"}}

\* C13: a check sends a request only after it has received a tick, and the
\* checks that have passed the limiter are never more than the ticks the
\* ticker has delivered.
GatePassedWithinTicks ==
    /\ Cardinality(PastGate) <= delivered
    /\ Cardinality(PastGate) + tickC = delivered
    /\ \A g \in Checks : attempts[g] > 0 => (g \in PastGate /\ ticks[g] = 1)

\* Three checks have passed on three ticks while requests were being sent.
GatePassedWitness ==
    /\ Cardinality(PastGate) = 3
    /\ delivered = 3
    /\ \E g, h \in Checks : g # h /\ attempts[g] > 0 /\ pc[h] = "lookup"

\* C14: one Fetcher call sends at most maxRetries requests and none after
\* the first 200; it sleeps between attempts only, never after the last
\* failed one; when the last attempt fails it returns "max retries
\* exceeded" with that attempt's network error, or else its status code.
AttemptsWithinMaxRetries ==
    \A g \in Checks :
        /\ attempts[g] <= IF config.MaxRetries > 0 THEN config.MaxRetries ELSE 0
        /\ IsSuccess(resp[g]) => (pc[g] # "fetch" /\ Len(sleeps[g]) = attempts[g] - 1)
        /\ Len(sleeps[g]) = loopI[g]
        /\ attempts[g] > 0 => Len(sleeps[g]) \in {attempts[g] - 1, attempts[g]}
        /\ (pc[g] = "fetch" /\ attempts[g] > 0) => Len(sleeps[g]) = attempts[g]
        /\ (attempts[g] = config.MaxRetries /\ ~IsSuccess(resp[g])) =>
               (Returned(g) /\ Len(sleeps[g]) = config.MaxRetries - 1)
        /\ (Returned(g) /\ attempts[g] > 0) =>
               (Len(sleeps[g]) = attempts[g] - 1 /\ sleepLeft[g] = 0)
        /\ (Returned(g) /\ attempts[g] > 0 /\ ~IsSuccess(resp[g])) =>
               /\ attempts[g] = config.MaxRetries
               /\ err[g] = <<"error getting remote tags", "max retries exceeded">> \o
                              (IF resp[g].neterr THEN <<"error fetching tags">>
                               ELSE <<"unexpected status code", resp[g].status>>)

\* A call that stops at its second attempt, a 200, with a third one left,
\* and one that gives up after three with the status code of the last.
AttemptsWitness ==
    /\ config.MaxRetries = 3
    /\ \E g, h \in Checks :
           /\ attempts[g] = 2
           /\ Fetched(g)
           /\ pc[g] = "done"
           /\ attempts[h] = 3
           /\ sleeps[h] = <<1000, 2000>>
           /\ err[h] = <<"error getting remote tags", "max retries exceeded",
                         "unexpected status code", 500>>

TagParses(g) == NewVersion(localImages[g].Tag).valid

\* C15: the local tag is parsed only once the Fetcher has returned tags: a
\* check reports "error parsing current version" only with the tags in hand;
\* an image whose tag is no version still makes the whole fetch, retries
\* included, on a cache miss; and a failed fetch is reported as "error
\* getting remote tags" whether or not the tag parses.
FetchBeforeParse ==
    \A g \in Checks :
        /\ err[g] = <<"error parsing current version">> =>
               (~TagParses(g) /\ (hit[g] \/ Fetched(g)))
        /\ (Returned(g) /\ ~TagParses(g)) => err[g] # NoErr
        /\ (Returned(g) /\ ~hit[g] /\ ~Fetched(g)) => FetchFailed(g)
        /\ (Returned(g) /\ ~hit[g] /\ ~TagParses(g) /\ config.GCRAccessToken # <<>>
                /\ ~NewRequestFails(localImages[g].Registry)) =>
               /\ attempts[g] >= 1
               /\ ~IsSuccess(resp[g]) =>
                      (attempts[g] = config.MaxRetries /\ MaxRetriesExceeded(g))

\* An image with a tag that is no version, whose fetch failed three times.
FetchBeforeParseWitness ==
    \E g \in Checks :
        /\ ~TagParses(g)
        /\ attempts[g] = 3
        /\ sleeps[g] = <<1000, 2000>>
        /\ MaxRetriesExceeded(g)
        /\ pc[g] = "done"

\* The last response was a 200 whose body is not valid JSON.
BadBody(g) ==
    ~resp[g].nil /\ ~resp[g].neterr /\ resp[g].status = StatusOK /\ ~resp[g].json

DecodeError == <<"error getting remote tags", "error decoding JSON response">>

\* C16: a 200 response whose body does not decode ends the Fetcher call at
\* once with a decode error: the check has returned, with no sleep begun
\* and so no further attempt, whatever is left of maxRetries.
DecodeErrorFailsAtOnce ==
    \A g \in Checks :
        /\ BadBody(g) =>
               /\ pc[g] \in {"exit", "done"}
               /\ err[g] = DecodeError
               /\ Len(sleeps[g]) = attempts[g] - 1
               /\ sleepLeft[g] = 0
               /\ update[g] = NoUpdate
        /\ err[g] = DecodeError => BadBody(g)

\* The first of three attempts is answered with a 200 and a bad body.
DecodeErrorWitness ==
    \E g \in Checks :
        /\ config.MaxRetries = 3
        /\ BadBody(g)
        /\ attempts[g] = 1
        /\ sleeps[g] = <<>>
        /\ pc[g] = "done"

\* C17: a key is in the cache only if a Fetcher call for that key received
\* a 200 whose body decoded, and the cached value is that decoded tag list
\* (what the registry serves for the key's repository).
CacheHoldsFetchedTags ==
    \A key \in DOMAIN cache :
        \E g \in Checks :
            /\ cacheKey(localImages[g]) = key
            /\ Fetched(g)
            /\ cache[key] = served[localImages[g].Repo]

\* C19: a Fetcher call never comes to resp.Body.Close() with a nil
\* response: when the retry loop is over without a return, resp holds the
\* response of a successful attempt.
ResponseHeldAfterLoop ==
    /\ \A g \in Checks :
           (pc[g] = "fetch" /\ ~(loopI[g] < config.MaxRetries)) => ~resp[g].nil
    /\ \A g \in Checks : pc[g] = "store" => IsSuccess(resp[g])

(***************************************************************************)
(* The run under fair scheduling: the ticker keeps firing, every goroutine *)
(* that can take a step takes it, every HTTP attempt returns.  The runtime *)
(* need not detect a concurrent map access: MapFault is not forced.        *)
(***************************************************************************)
InitLive ==
    \E supplied \in [GCRAccessToken : {<<"t">>}, RateLimit : {1000},
                     MaxRetries : {-1, 1, 2}, RetryDelay : {0}],
       lines \in {l \in LineLists : Len(l) <= 2} :
        InitWith(FileOf(supplied), lines, [repo \in Repos |-> DefaultServed(repo)])

\* The steps of main's goroutine.
MainStep == Spawn \/ StartCloser \/ PrintResult \/ MainReturn

\* The steps of the check goroutine g.
CheckStep(g) ==
    \/ RecvTick(g)
    \/ Lookup(g)
    \/ \E outcome \in Outcomes : Attempt(g, outcome)
    \/ NilDeref(g)
    \/ Store(g)
    \/ StoreTorn(g)
    \/ Send(g)
    \/ Done(g)

\* Each goroutine and the ticker go on whenever they can.
Fairness ==
    /\ WF_vars(MainStep)
    /\ WF_vars(CloseResults)
    /\ WF_vars(Tick)
    /\ \A g \in 1..MaxImages : WF_vars(g \in Checks /\ CheckStep(g))

SpecLive == InitLive /\ [][Next]_vars /\ Fairness

AllFinished ==
    /\ \A g \in Checks : pc[g] = "done" /\ ticks[g] = 1
    /\ closed
    /\ mainPc = "done"

\* C18: the run terminates: every check receives a tick and finishes, the
\* result channel is closed and the printing loop ends.
RunTerminates == <>AllFinished

\* The run terminates unless the process dies of a panic or a fatal error.
RunTerminatesUnlessCrashed == <>(crashed \/ AllFinished)

(***************************************************************************)
(* Runs in which every image has an update to report: up to MaxImages      *)
(* values go through the results channel.                                  *)
(***************************************************************************)
\* r/a:1.0.0, r/a:1.0.1, r/b:1.0.0.
ChanLines ==
    << <<"r", "/", "a", ":", "1", ".", "0", ".", "0">>,
       <<"r", "/", "a", ":", "1", ".", "0", ".", "1">>,
       <<"r", "/", "b", ":", "1", ".", "0", ".", "0">> >>

\* Every repository serves 1.0.2.
InitChan ==
    \E supplied \in [GCRAccessToken : {<<"t">>}, RateLimit : {1000},
                     MaxRetries : {-1, 1}, RetryDelay : {0}],
       n \in {m \in 0..MaxImages : m <= Len(ChanLines)} :
        InitWith(FileOf(supplied), SubSeq(ChanLines, 1, n),
                 [repo \in {parseImageName(ChanLines[k]).Repo : k \in 1..Len(ChanLines)} |->
                     << <<"1", ".", "0", ".", "2">> >>])

SpecChan == InitChan /\ [][Next]_vars

\* The values check g has sent that are still in the channel's buffer.
Buffered(g) == {k \in 1..Len(results) : results[k].from = g}

\* C20: each check sends at most one value; the buffer never holds more
\* than len(localImages) values and a check about to send finds room, so no
\* send blocks; the channel is closed once, by the closer, after every
\* check has finished; no check is at its send once the channel is closed.
ResultChannelSafe ==
    /\ Len(results) <= Len(localImages)
    /\ \A g \in Checks :
           /\ Cardinality(Buffered(g)) + printed[g] <= 1
           /\ pc[g] = "send" =>
                  /\ ~closed
                  /\ Len(results) < Len(localImages)
                  /\ Cardinality(Buffered(g)) + printed[g] = 0
           /\ Cardinality(Buffered(g)) + printed[g] = 1 => pc[g] \in {"exit", "done"}
    /\ closed <=> closerPc = "done"
    /\ closed => (wg = 0 /\ \A g \in Checks : pc[g] = "done")

\* The three checks have sent and finished with all three values still in
\* the buffer, a full channel, and the closer has closed it.
ResultChannelWitness ==
    /\ Len(localImages) = 3
    /\ Len(results) = 3
    /\ closed
    /\ \A g \in Checks : pc[g] = "done" /\ Cardinality(Buffered(g)) = 1

(***************************************************************************)
(* Runs over outputs of `docker image ls` that mix lines parseImageName    *)
(* accepts with lines it rejects.                                          *)
(***************************************************************************)
\* At most this many lines in the output.
MaxLines == 3

\* r/a:1.0.0, r/a:1.0.1, 1:5/a:1.0.0 (a ':' before the last segment too),
\* and the lines parseImageName rejects: the empty line, a:1.0.0 (no '/'),
\* r/a (no ':'), r/a:1:0 (two ':'), r:5/a (a ':' only before the last
\* segment).
SkipNames ==
    { <<"r", "/", "a", ":", "1", ".", "0", ".", "0">>,
      <<"r", "/", "a", ":", "1", ".", "0", ".", "1">>,
      <<"1", ":", "5", "/", "a", ":", "1", ".", "0", ".", "0">>,
      <<>>,
      <<"a", ":", "1", ".", "0", ".", "0">>,
      <<"r", "/", "a">>,
      <<"r", "/", "a", ":", "1", ":", "0">>,
      <<"r", ":", "5", "/", "a">> }

\* The outputs: one to MaxLines distinct lines, in any order.
SkipLists ==
    UNION {{l \in [1..n -> SkipNames] : \A i, j \in 1..n : l[i] = l[j] => i = j} :
              n \in 1..MaxLines}

InitSkip ==
    \E supplied \in [GCRAccessToken : {<<"t">>}, RateLimit : {1000},
                     MaxRetries : {-1, 1}, RetryDelay : {0}],
       lines \in SkipLists :
        InitWith(FileOf(supplied), lines,
                 [repo \in {parseImageName(n).Repo : n \in SkipNames} |->
                     DefaultServed(repo)])

SpecSkip == InitSkip /\ [][Next]_vars

\* How many times the character c occurs in s.
Count(s, c) == Cardinality({k \in 1..Len(s) : s[k] = c})

\* The position of the last '/' of a line, 0 if it has none.
LastSlash(line) ==
    IF \E k \in 1..Len(line) : line[k] = "/"
    THEN CHOOSE k \in 1..Len(line) :
             line[k] = "/" /\ \A j \in (k + 1)..Len(line) : line[j] # "/"
    ELSE 0

\* A line can be parsed: it has a '/' and the segment after its last '/'
\* contains exactly one ':'.
LineParses(line) ==
    /\ LastSlash(line) > 0
    /\ Count(SubSeq(line, LastSlash(line) + 1, Len(line)), ":") = 1

LineRejected(line) == ~LineParses(line)

\* C21: a line that has no '/' or whose last segment does not contain
\* exactly one ':' is logged and skipped, and the lines after it are still
\* processed: localImages holds one image for each line that can be parsed,
\* in the order of the output, and the log exactly the other lines; main
\* spawns one check for each image and no other, and has spawned them all
\* when it leaves its loop; a run without any parseable line does not fail.
UnparseableLinesSkipped ==
    /\ Len(localImages) = Len(SelectSeq(output, LineParses))
    /\ \A g \in Checks :
           /\ localImages[g].ok
           /\ localImages[g] = parseImageName(SelectSeq(output, LineParses)[g])
    /\ parseLog = SelectSeq(output, LineRejected)
    /\ spawned <= Len(localImages)
    /\ \A g \in Checks : pc[g] # "unborn" <=> g <= spawned
    /\ mainPc # "spawn" => spawned = Len(SelectSeq(output, LineParses))
    /\ Len(localImages) = 0 => ~crashed

\* The output r/a:1.0.0, r/a, r/a:1.0.1: the second line is logged, the
\* checks of the first and the third have run, the first one's update is
\* printed and main has returned.
UnparseableLinesWitness ==
    /\ output = << <<"r", "/", "a", ":", "1", ".", "0", ".", "0">>,
                   <<"r", "/", "a">>,
                   <<"r", "/", "a", ":", "1", ".", "0", ".", "1">> >>
    /\ parseLog = << <<"r", "/", "a">> >>
    /\ spawned = 2
    /\ \A g \in Checks : pc[g] = "done" /\ ticks[g] = 1
    /\ localImages[2].Tag = <<"1", ".", "0", ".", "1">>
    /\ printed[1] = 1
    /\ mainPc = "done"

=============================================================================
